---- MODULE Spec2Model ----
(* Job board: the App component's state (user, loading, jobs, savedJobs),  *)
(* its asynchronous handlers (loadJobs, loadSavedJobs, handleSaveJob) and  *)
(* the record store they talk to.  Every store call is a request that the  *)
(* store serves in one step and whose continuation (the code after the     *)
(* await) runs in a later step, so handlers interleave as they do on the   *)
(* event loop.                                                             *)
EXTENDS Integers, Sequences, FiniteSets, TLC

VARIABLES user, loading, jobs, savedJobs, dbJobs, dbSaved, net, nextReq,
          clock, toast, outcome, last,
          \* JobBoard: the five filter states and the four memoized views
          searchQuery, locationFilter, employmentTypeFilter,
          experienceLevelFilter, salaryMinFilter,
          locations, employmentTypes, experienceLevels, filteredJobs,
          \* PostJobModal: the tags being edited; posted records what each
          \* submitted job's tags were
          tags, posted

vars == <<user, loading, jobs, savedJobs, dbJobs, dbSaved, net, nextReq,
          clock, toast, outcome, last,
          searchQuery, locationFilter, employmentTypeFilter,
          experienceLevelFilter, salaryMinFilter,
          locations, employmentTypes, experienceLevels, filteredJobs,
          tags, posted>>

modalVars == <<tags, posted>>

appVars == <<user, loading, jobs, savedJobs, dbJobs, dbSaved, net, nextReq,
             clock, toast, outcome, last>>

filterVars == <<searchQuery, locationFilter, employmentTypeFilter,
                experienceLevelFilter, salaryMinFilter>>

(* ------------------------------ bounds -------------------------------- *)
\* total number of store requests issued in one behaviour
MaxRequests == 4
\* number of job rows in a store response the filter engine is run on
MaxJobs == 2
\* number of tags a job is posted with
MaxTags == 2

(* ----------------------------- constants ------------------------------ *)
Null == "null"
Users == {"u1", "u2"}
NoSalary == -1
USD == "USD"

(* ------------------------------ helpers ------------------------------- *)
Range(s) == {s[i] : i \in 1..Len(s)}

RECURSIVE Filter(_, _)
\* Array.prototype.filter with the predicate given as the set of kept values
Filter(s, keep) ==
  IF s = << >> THEN << >>
  ELSE IF Head(s) \in keep THEN <<Head(s)>> \o Filter(Tail(s), keep)
       ELSE Filter(Tail(s), keep)

RECURSIVE Reverse(_)
Reverse(s) == IF s = << >> THEN << >> ELSE Reverse(Tail(s)) \o <<Head(s)>>

\* object spread: { ...obj, k1: v1, ... }
Spread(obj, over) ==
  [k \in DOMAIN obj \cup DOMAIN over |->
     IF k \in DOMAIN over THEN over[k] ELSE obj[k]]

(* -------------------------------- text -------------------------------- *)
\* A string is the sequence of its characters; "" is << >>.
UpperLetters ==
  <<"A", "B", "C", "D", "E", "F", "G", "H", "I", "J", "K", "L", "M",
    "N", "O", "P", "Q", "R", "S", "T", "U", "V", "W", "X", "Y", "Z">>
LowerLetters ==
  <<"a", "b", "c", "d", "e", "f", "g", "h", "i", "j", "k", "l", "m",
    "n", "o", "p", "q", "r", "s", "t", "u", "v", "w", "x", "y", "z">>
Digits == <<"0", "1", "2", "3", "4", "5", "6", "7", "8", "9">>

\* the characters in the order of their UTF-16 code units
CodeUnits == <<" ", "-", "/">> \o Digits \o UpperLetters \o LowerLetters

Code(c) == CHOOSE i \in 1..Len(CodeUnits) : CodeUnits[i] = c

\* String.prototype.toLowerCase
toLowerCase(str) ==
  [i \in 1..Len(str) |->
     IF \E k \in 1..26 : UpperLetters[k] = str[i]
     THEN LowerLetters[CHOOSE k \in 1..26 : UpperLetters[k] = str[i]]
     ELSE str[i]]

\* String.prototype.includes
includes(str, q) ==
  \E k \in 0..(Len(str) - Len(q)) : \A i \in 1..Len(q) : str[k + i] = q[i]

\* the default comparison of Array.prototype.sort: by code units, a proper
\* prefix first
RECURSIVE StrLess(_, _)
StrLess(a, b) ==
  IF b = << >> THEN FALSE
  ELSE IF a = << >> THEN TRUE
  ELSE IF Head(a) # Head(b) THEN Code(Head(a)) < Code(Head(b))
  ELSE StrLess(Tail(a), Tail(b))

\* parseInt(str): an optional sign and the leading digits; NaN when there are none
IsDigit(c) == \E k \in 1..10 : Digits[k] = c
RECURSIVE LeadingDigits(_, _)
LeadingDigits(str, acc) ==
  IF str # << >> /\ IsDigit(Head(str))
  THEN LeadingDigits(Tail(str), 10 * acc + (Code(Head(str)) - Code("0")))
  ELSE acc
parseInt(str) ==
  LET neg == str # << >> /\ Head(str) = "-"
      body == IF neg THEN Tail(str) ELSE str
  IN IF body = << >> \/ ~IsDigit(Head(body))
     THEN [nan |-> TRUE, n |-> 0]
     ELSE [nan |-> FALSE,
           n |-> IF neg THEN 0 - LeadingDigits(body, 0)
                        ELSE LeadingDigits(body, 0)]

(* --------------------------- tags transport --------------------------- *)
\* A JSON text is the sequence of its tokens: the brackets, the commas and
\* the string literals; the empty text is the falsy "".
LBracket == [k |-> "[", v |-> << >>]
RBracket == [k |-> "]", v |-> << >>]
Comma == [k |-> ",", v |-> << >>]

\* a string literal is written between quotes, with \ before each quote
\* and each backslash of the string
Quote == "\""
Backslash == "\\"

\* escape that leaves backslashes alone
RECURSIVE escapeQuotesOnly(_)
escapeQuotesOnly(str) ==
  IF str = << >> THEN << >>
  ELSE (IF Head(str) = Quote THEN <<Backslash, Quote>> ELSE <<Head(str)>>)
         \o escapeQuotesOnly(Tail(str))

RECURSIVE escape(_)
escape(str) ==
  IF str = << >> THEN << >>
  ELSE (IF Head(str) \in {Quote, Backslash}
        THEN <<Backslash, Head(str)>>
        ELSE <<Head(str)>>) \o escape(Tail(str))

\* the string an escaped text stands for; ok is FALSE for a text with a
\* bare quote or a backslash that escapes nothing
RECURSIVE unescape(_)
unescape(text) ==
  IF text = << >> THEN [ok |-> TRUE, v |-> << >>]
  ELSE IF Head(text) = Quote THEN [ok |-> FALSE, v |-> << >>]
  ELSE IF Head(text) = Backslash
  THEN IF Len(text) >= 2 /\ text[2] \in {Quote, Backslash, "/"}
       THEN LET rest == unescape(SubSeq(text, 3, Len(text)))
            IN [ok |-> rest.ok, v |-> <<text[2]>> \o rest.v]
       ELSE [ok |-> FALSE, v |-> << >>]
  ELSE LET rest == unescape(Tail(text))
       IN [ok |-> rest.ok, v |-> <<Head(text)>> \o rest.v]

StringLit(str) ==
  [k |-> "string", v |-> <<Quote>> \o escape(str) \o <<Quote>>]

\* the literal texts JSON.parse accepts
StringLitValid(lit) ==
  /\ Len(lit) >= 2
  /\ lit[1] = Quote /\ lit[Len(lit)] = Quote
  /\ unescape(SubSeq(lit, 2, Len(lit) - 1)).ok

JSONstringify(value) ==
  LET body[i \in 0..Len(value)] ==
        IF i = 0 THEN << >>
        ELSE IF i = 1 THEN <<StringLit(value[1])>>
        ELSE body[i - 1] \o <<Comma, StringLit(value[i])>>
  IN <<LBracket>> \o body[Len(value)] \o <<RBracket>>

\* the texts JSON.parse accepts as an array of strings
JSONvalid(text) ==
  /\ Len(text) >= 2
  /\ text[1] = LBracket /\ text[Len(text)] = RBracket
  /\ \/ Len(text) = 2
     \/ /\ Len(text) % 2 = 1
        /\ \A i \in 2..(Len(text) - 1) :
             IF i % 2 = 0
             THEN text[i].k = "string" /\ StringLitValid(text[i].v)
             ELSE text[i] = Comma

JSONparse(text) ==
  [i \in 1..((Len(text) - 1) \div 2) |->
     unescape(SubSeq(text[2 * i].v, 2, Len(text[2 * i].v) - 1)).v]

(* ------------------------------- store -------------------------------- *)
JobRow(id, title, company, location, desc, smin, smax, etype, elevel, tagsText, uid, at) ==
  [id |-> id, title |-> title, company |-> company, location |-> location,
   salary_min |-> smin, salary_max |-> smax, salary_currency |-> USD,
   description |-> desc, requirements |-> "", benefits |-> "",
   employment_type |-> etype, experience_level |-> elevel,
   application_type |-> "email", application_email |-> "hr@x.io",
   application_link |-> "", tags |-> tagsText, user_id |-> uid,
   created_at |-> at, updated_at |-> at]

\* rows a store can hold: texts are character sequences, tags JSON texts
Row1 ==
  JobRow("j1", <<"R", "e", "a", "c", "t", " ", "D", "e", "v">>, <<"A", "c", "m", "e">>, <<"R", "e", "m", "o", "t", "e">>, <<"B", "u", "i", "l", "d", " ", "U", "I">>,
         50000, 90000, <<"F", "u", "l", "l", "-", "t", "i", "m", "e">>, <<"S", "e", "n", "i", "o", "r", " ", "L", "e", "v", "e", "l">>,
         JSONstringify(<<<<"R", "e", "a", "c", "t">>, <<"T", "S">>>>), "u1", 1)
Row2 ==
  JobRow("j2", <<"A", "n", "a", "l", "y", "s", "t">>, <<"G", "l", "o", "b", "e", "x">>, <<"B", "e", "r", "l", "i", "n">>, <<"S", "Q", "L", " ", "r", "e", "p", "o", "r", "t", "s">>,
         NoSalary, 60000, <<"C", "o", "n", "t", "r", "a", "c", "t">>, <<"M", "i", "d", " ", "L", "e", "v", "e", "l">>,
         JSONstringify(<< >>), "u2", 2)

\* repeats Row1's location and type, has no salary and no tags text
Row3 ==
  JobRow("j3", <<"I", "n", "t", "e", "r", "n">>, <<"A", "c", "m", "e">>, <<"R", "e", "m", "o", "t", "e">>, <<"L", "e", "a", "r", "n", " ", "R", "e", "a", "c", "t">>,
         NoSalary, NoSalary, <<"F", "u", "l", "l", "-", "t", "i", "m", "e">>, <<"E", "n", "t", "r", "y", " ", "L", "e", "v", "e", "l">>,
         << >>, "u1", 3)
\* written by another client: its tags text is not JSON
Row4 ==
  JobRow("j4", <<"L", "e", "a", "d">>, <<"I", "n", "i", "t", "e", "c", "h">>, <<"b", "e", "r", "l", "i", "n">>, <<"R", "u", "n", " ", "t", "e", "a", "m">>,
         70000, NoSalary, <<"C", "o", "n", "t", "r", "a", "c", "t">>, <<"S", "e", "n", "i", "o", "r", " ", "L", "e", "v", "e", "l">>,
         <<StringLit(<<"G", "o">>), Comma>>, "u2", 4)

InitialJobs == <<Row1, Row2>>

SavedRow(id, jobId, uid, at) ==
  [id |-> id, job_id |-> jobId, user_id |-> uid, created_at |-> at]

\* what the store may hold from earlier sessions
InitialSaved == <<SavedRow(100, "j1", "u1", 1)>>

\* blink.db.savedJobs.list({ where: { userId }, orderBy: { createdAt: 'desc' } })
RECURSIVE SortDesc(_)
SortDesc(rows) ==
  IF rows = {} THEN << >>
  ELSE LET top == CHOOSE r \in rows :
                    \A q \in rows : \/ q.created_at < r.created_at
                                    \/ /\ q.created_at = r.created_at
                                       /\ q.id <= r.id
       IN <<top>> \o SortDesc(rows \ {top})

ListSaved(db, uid) == SortDesc({r \in Range(db) : r.user_id = uid})

\* blink.db.jobs.list({ orderBy: { createdAt: 'desc' }, limit: 100 })
ListJobs(db) == Reverse(db)

(* ------------------------------ requests ------------------------------ *)
NoToast == [title |-> "", description |-> "", variant |-> ""]
Toast(t, d, v) == [title |-> t, description |-> d, variant |-> v]

\* issuedSaved, issuedJobs: the local state a load was issued in
Request(rid, op, uid, jobId, id) ==
  [rid |-> rid, op |-> op, userId |-> uid, jobId |-> jobId, id |-> id,
   status |-> "pending", rows |-> << >>, jobRows |-> << >>,
   issuedSaved |-> IF op \in {"jobs.list", "savedJobs.list"}
                   THEN savedJobs ELSE << >>,
   issuedJobs |-> IF op \in {"jobs.list", "savedJobs.list"}
                  THEN jobs ELSE << >>]

Pending(op) == {r \in net : r.op = op /\ r.status = "pending"}
Settled(op) == {r \in net : r.op = op /\ r.status # "pending"}

CanIssue(n) == nextReq + n - 1 <= MaxRequests

NoRequest ==
  [rid |-> 0, op |-> "", userId |-> Null, jobId |-> "", id |-> 0,
   status |-> "", rows |-> << >>, jobRows |-> << >>,
   issuedSaved |-> << >>, issuedJobs |-> << >>]

(* ------------------------------ formatting ---------------------------- *)
\* App.tsx 67-81: the row, spread, with parsed tags and camelCase copies
formatJob(job) ==
  Spread(job,
    [tags |-> IF job.tags # << >> THEN JSONparse(job.tags) ELSE << >>,
     salaryMin |-> job.salary_min, salaryMax |-> job.salary_max,
     salaryCurrency |-> IF job.salary_currency # "" THEN job.salary_currency ELSE USD,
     employmentType |-> job.employment_type,
     experienceLevel |-> job.experience_level,
     applicationType |-> job.application_type,
     applicationEmail |-> job.application_email,
     applicationLink |-> job.application_link,
     userId |-> job.user_id, createdAt |-> job.created_at,
     updatedAt |-> job.updated_at])

\* JSON.parse throws on a non-empty text that is not JSON
formatThrows(rows) ==
  \E i \in 1..Len(rows) : rows[i].tags # << >> /\ ~JSONvalid(rows[i].tags)

formatSavedJob(savedJob) ==
  [id |-> savedJob.id, jobId |-> savedJob.job_id,
   userId |-> savedJob.user_id, createdAt |-> savedJob.created_at]

\* savedJobs.some(save => save.jobId === jobId)
isJobSaved(jobId) == \E i \in 1..Len(savedJobs) : savedJobs[i].jobId = jobId

\* savedJobs.find(save => save.jobId === jobId): index of the first match, 0 if none
find(saves, jobId) ==
  IF \E i \in 1..Len(saves) : saves[i].jobId = jobId
  THEN CHOOSE i \in 1..Len(saves) :
         /\ saves[i].jobId = jobId
         /\ \A k \in 1..(i - 1) : saves[k].jobId # jobId
  ELSE 0

(* ------------------------------ JobBoard ------------------------------ *)
\* a number that is neither undefined/null nor 0
Truthy(n) == n # NoSalary /\ n # 0

\* matchesSearch without toLowerCase on either side
matchesSearchCaseSensitive(job, query) ==
  \/ query = << >>
  \/ includes(job.title, query)
  \/ includes(job.company, query)
  \/ includes(job.description, query)
  \/ \E i \in 1..Len(job.tags) : includes(job.tags[i], query)

\* JobBoard.tsx 43-47
matchesSearch(job, query) ==
  \/ query = << >>
  \/ includes(toLowerCase(job.title), toLowerCase(query))
  \/ includes(toLowerCase(job.company), toLowerCase(query))
  \/ includes(toLowerCase(job.description), toLowerCase(query))
  \/ \E i \in 1..Len(job.tags) :
       includes(toLowerCase(job.tags[i]), toLowerCase(query))

\* JobBoard.tsx 49-51: !filter || value === filter
matchesExact(value, filter) == filter = << >> \/ value = filter

\* matchesSalary falling back to salaryMax: (job.salaryMin || job.salaryMax)
matchesSalaryOrMax(job, salaryMin) ==
  \/ salaryMin = << >>
  \/ LET pay == IF Truthy(job.salaryMin) THEN job.salaryMin ELSE job.salaryMax
     IN /\ Truthy(pay)
        /\ ~parseInt(salaryMin).nan
        /\ pay >= parseInt(salaryMin).n

\* JobBoard.tsx 53-54
matchesSalary(job, salaryMin) ==
  \/ salaryMin = << >>
  \/ /\ Truthy(job.salaryMin)
     /\ ~parseInt(salaryMin).nan
     /\ job.salaryMin >= parseInt(salaryMin).n

\* matches without matchesExperienceLevel in the conjunction
matchesWithoutLevel(job, query, location, employmentType, experienceLevel, salaryMin) ==
  /\ matchesSearch(job, query)
  /\ matchesExact(job.location, location)
  /\ matchesExact(job.employmentType, employmentType)
  /\ matchesSalary(job, salaryMin)

\* matches where an active salary filter replaces the other four
matchesSalaryOverrides(job, query, location, employmentType, experienceLevel, salaryMin) ==
  IF salaryMin # << >>
  THEN matchesSalary(job, salaryMin)
  ELSE /\ matchesSearch(job, query)
       /\ matchesExact(job.location, location)
       /\ matchesExact(job.employmentType, employmentType)
       /\ matchesExact(job.experienceLevel, experienceLevel)

\* JobBoard.tsx 56-57
matches(job, query, location, employmentType, experienceLevel, salaryMin) ==
  /\ matchesSearch(job, query)
  /\ matchesExact(job.location, location)
  /\ matchesExact(job.employmentType, employmentType)
  /\ matchesExact(job.experienceLevel, experienceLevel)
  /\ matchesSalary(job, salaryMin)

\* jobs.filter(...).reverse()
computeFilteredJobsReversed(js, query, location, employmentType, experienceLevel, salaryMin) ==
  Reverse(SelectSeq(js, LAMBDA job : matches(job, query, location,
                                             employmentType, experienceLevel,
                                             salaryMin)))

\* JobBoard.tsx 41-58: jobs.filter(...)
computeFilteredJobs(js, query, location, employmentType, experienceLevel, salaryMin) ==
  SelectSeq(js, LAMBDA job : matches(job, query, location, employmentType,
                                     experienceLevel, salaryMin))

\* [...new Set(values)]: the first occurrence of each value, in order
RECURSIVE unique(_)
unique(values) ==
  IF values = << >> THEN << >>
  ELSE LET init == unique(SubSeq(values, 1, Len(values) - 1))
           x == values[Len(values)]
       IN IF x \in Range(init) THEN init ELSE Append(init, x)

\* Array.prototype.sort() with the default comparison
RECURSIVE sort(_)
sort(values) ==
  IF values = << >> THEN << >>
  ELSE LET rest == sort(Tail(values))
           x == Head(values)
           before == SelectSeq(rest, LAMBDA y : StrLess(y, x))
           after == SelectSeq(rest, LAMBDA y : ~StrLess(y, x))
       IN before \o <<x>> \o after

\* jobs.map(job => job.<field>).sort(), without the Set
sortedOnly(values) == sort(values)

\* JobBoard.tsx 25-38: [...new Set(jobs.map(job => job.<field>))].sort()
uniqueSorted(values) == sort(unique(values))
computeLocations(js) == uniqueSorted([i \in 1..Len(js) |-> js[i].location])
computeEmploymentTypes(js) ==
  uniqueSorted([i \in 1..Len(js) |-> js[i].employmentType])
computeExperienceLevels(js) ==
  uniqueSorted([i \in 1..Len(js) |-> js[i].experienceLevel])

\* useMemo(factory, deps): the cached value unless a dependency changed
useMemo(cached, depsChanged, fresh) == IF depsChanged THEN fresh ELSE cached

\* the render with jobs left out of filteredJobs' dependency list
JobBoardRenderMissingDep ==
  /\ locations' = useMemo(locations, jobs' # jobs, computeLocations(jobs'))
  /\ employmentTypes' =
       useMemo(employmentTypes, jobs' # jobs, computeEmploymentTypes(jobs'))
  /\ experienceLevels' =
       useMemo(experienceLevels, jobs' # jobs, computeExperienceLevels(jobs'))
  /\ filteredJobs' =
       useMemo(filteredJobs,
               <<searchQuery', locationFilter', employmentTypeFilter',
                 experienceLevelFilter', salaryMinFilter'>>
                 # <<searchQuery, locationFilter, employmentTypeFilter,
                     experienceLevelFilter, salaryMinFilter>>,
               computeFilteredJobs(jobs', searchQuery', locationFilter',
                                   employmentTypeFilter',
                                   experienceLevelFilter', salaryMinFilter'))

\* the render of JobBoard that follows a state update
JobBoardRender ==
  /\ locations' = useMemo(locations, jobs' # jobs, computeLocations(jobs'))
  /\ employmentTypes' =
       useMemo(employmentTypes, jobs' # jobs, computeEmploymentTypes(jobs'))
  /\ experienceLevels' =
       useMemo(experienceLevels, jobs' # jobs, computeExperienceLevels(jobs'))
  /\ filteredJobs' =
       useMemo(filteredJobs,
               <<jobs', searchQuery', locationFilter', employmentTypeFilter',
                 experienceLevelFilter', salaryMinFilter'>>
                 # <<jobs, searchQuery, locationFilter, employmentTypeFilter,
                     experienceLevelFilter, salaryMinFilter>>,
               computeFilteredJobs(jobs', searchQuery', locationFilter',
                                   employmentTypeFilter',
                                   experienceLevelFilter', salaryMinFilter'))

\* a step of App that leaves the filters alone
BoardIdle == UNCHANGED filterVars /\ JobBoardRender

\* a step that leaves the post form alone
ModalIdle == UNCHANGED modalVars

(* ------------------------------- Init --------------------------------- *)
Init ==
  /\ user = Null
  /\ loading = TRUE
  /\ jobs = << >>
  /\ savedJobs = << >>
  /\ dbJobs = InitialJobs
  /\ dbSaved = InitialSaved
  /\ net = {}
  /\ nextReq = 1
  /\ clock = 2
  /\ toast = NoToast
  /\ outcome = "Init"
  /\ last = NoRequest
  /\ searchQuery = << >>
  /\ locationFilter = << >>
  /\ employmentTypeFilter = << >>
  /\ experienceLevelFilter = << >>
  /\ salaryMinFilter = << >>
  /\ locations = << >>
  /\ employmentTypes = << >>
  /\ experienceLevels = << >>
  /\ filteredJobs = << >>
  /\ tags = << >>
  /\ posted = {}

(* --------------------------- auth provider ---------------------------- *)
\* App.tsx 52-58 and the effect of 115-120 that the new user triggers
AuthStateChanged(u, isLoading) ==
  /\ user' = u
  /\ loading' = isLoading
  /\ IF u # Null
     THEN /\ CanIssue(2)
          /\ net' = net \cup
               { Request(nextReq, "jobs.list", Null, "", 0),
                 Request(nextReq + 1, "savedJobs.list", u, "", 0) }
          /\ nextReq' = nextReq + 2
     ELSE UNCHANGED <<net, nextReq>>
  /\ toast' = NoToast
  /\ outcome' = "AuthStateChanged"
  /\ last' = NoRequest
  /\ UNCHANGED <<jobs, savedJobs, dbJobs, dbSaved, clock>>

(* ------------------------------- store -------------------------------- *)
Settle(r, status, rows, jobRows) ==
  net' = (net \ {r}) \cup
         {[r EXCEPT !.status = status, !.rows = rows, !.jobRows = jobRows]}

StoreServe(r) ==
  /\ r \in net /\ r.status = "pending"
  /\ \/ /\ r.op = "jobs.list"
        /\ Settle(r, "ok", << >>, ListJobs(dbJobs))
        /\ UNCHANGED <<dbSaved, clock>>
     \/ /\ r.op = "savedJobs.list"
        /\ Settle(r, "ok", ListSaved(dbSaved, r.userId), << >>)
        /\ UNCHANGED <<dbSaved, clock>>
     \/ /\ r.op = "savedJobs.create"
        /\ clock' = clock + 1
        /\ LET row == SavedRow(r.id, r.jobId, r.userId, clock + 1)
           IN /\ dbSaved' = Append(dbSaved, row)
              /\ Settle(r, "ok", <<row>>, << >>)
     \/ /\ r.op = "savedJobs.delete"
        /\ dbSaved' = Filter(dbSaved, {x \in Range(dbSaved) : x.id # r.id})
        /\ Settle(r, "ok", << >>, << >>)
        /\ UNCHANGED clock
  /\ UNCHANGED <<user, loading, jobs, savedJobs, dbJobs, nextReq, toast,
                 outcome, last>>

StoreFail(r) ==
  /\ r \in net /\ r.status = "pending"
  /\ Settle(r, "error", << >>, << >>)
  /\ UNCHANGED <<user, loading, jobs, savedJobs, dbJobs, dbSaved, nextReq,
                 clock, toast, outcome, last>>

(* ------------------------------ loadJobs ------------------------------ *)
\* loadJobs with a catch that also resets the list: setJobs([])
loadJobsClearOnError(r) ==
  /\ r \in net /\ r.op = "jobs.list" /\ r.status # "pending"
  /\ net' = net \ {r}
  /\ last' = [r EXCEPT !.rid = 0]
  /\ IF r.status = "ok" /\ ~formatThrows(r.jobRows)
     THEN /\ jobs' = [i \in 1..Len(r.jobRows) |-> formatJob(r.jobRows[i])]
          /\ toast' = NoToast
          /\ outcome' = "JobsLoaded"
     ELSE /\ jobs' = << >>
          /\ toast' = Toast("Error", "Failed to load jobs", "destructive")
          /\ outcome' = "JobsLoadFailed"
  /\ UNCHANGED <<user, loading, savedJobs, dbJobs, dbSaved, nextReq, clock>>

\* App.tsx 60-92, from the await on: format and setJobs, or catch and toast
loadJobs(r) ==
  /\ r \in net /\ r.op = "jobs.list" /\ r.status # "pending"
  /\ net' = net \ {r}
  /\ last' = [r EXCEPT !.rid = 0]
  /\ IF r.status = "ok" /\ ~formatThrows(r.jobRows)
     THEN /\ jobs' = [i \in 1..Len(r.jobRows) |-> formatJob(r.jobRows[i])]
          /\ toast' = NoToast
          /\ outcome' = "JobsLoaded"
     ELSE /\ jobs' = jobs
          /\ toast' = Toast("Error", "Failed to load jobs", "destructive")
          /\ outcome' = "JobsLoadFailed"
  /\ UNCHANGED <<user, loading, savedJobs, dbJobs, dbSaved, nextReq, clock>>

(* ---------------------------- loadSavedJobs --------------------------- *)
\* loadSavedJobs merging the result into the list: setSavedJobs(prev => [...prev, ...formatted])
loadSavedJobsMerge(r) ==
  /\ r \in net /\ r.op = "savedJobs.list" /\ r.status # "pending"
  /\ net' = net \ {r}
  /\ last' = [r EXCEPT !.rid = 0]
  /\ toast' = NoToast
  /\ IF r.status = "ok"
     THEN /\ savedJobs' = savedJobs \o
                           [i \in 1..Len(r.rows) |-> formatSavedJob(r.rows[i])]
          /\ outcome' = "SavedLoaded"
     ELSE /\ savedJobs' = savedJobs
          /\ outcome' = "SavedLoadFailed"
  /\ UNCHANGED <<user, loading, jobs, dbJobs, dbSaved, nextReq, clock>>

\* loadSavedJobs keeping the local marks the result does not hold:
\* setSavedJobs(prev => [...formatted, ...prev.filter(not in formatted)])
loadSavedJobsKeepLocal(r) ==
  /\ r \in net /\ r.op = "savedJobs.list" /\ r.status # "pending"
  /\ net' = net \ {r}
  /\ last' = [r EXCEPT !.rid = 0]
  /\ toast' = NoToast
  /\ IF r.status = "ok"
     THEN /\ savedJobs' =
               [i \in 1..Len(r.rows) |-> formatSavedJob(r.rows[i])] \o
               Filter(savedJobs,
                      {x \in Range(savedJobs) :
                         \A i \in 1..Len(r.rows) : r.rows[i].id # x.id})
          /\ outcome' = "SavedLoaded"
     ELSE /\ savedJobs' = savedJobs
          /\ outcome' = "SavedLoadFailed"
  /\ UNCHANGED <<user, loading, jobs, dbJobs, dbSaved, nextReq, clock>>

\* App.tsx 94-112, from the await on: format and setSavedJobs, or catch
\* (console.error only)
loadSavedJobs(r) ==
  /\ r \in net /\ r.op = "savedJobs.list" /\ r.status # "pending"
  /\ net' = net \ {r}
  /\ last' = [r EXCEPT !.rid = 0]
  /\ toast' = NoToast
  /\ IF r.status = "ok"
     THEN /\ savedJobs' = [i \in 1..Len(r.rows) |-> formatSavedJob(r.rows[i])]
          /\ outcome' = "SavedLoaded"
     ELSE /\ savedJobs' = savedJobs
          /\ outcome' = "SavedLoadFailed"
  /\ UNCHANGED <<user, loading, jobs, dbJobs, dbSaved, nextReq, clock>>

(* ---------------------------- handleSaveJob --------------------------- *)
\* handleSaveJob without its first line, if (!user) return
handleSaveJobUnguarded(jobId) ==
  /\ \E i \in 1..Len(jobs) : jobs[i].id = jobId
  /\ UNCHANGED <<user, loading, jobs, savedJobs, dbJobs, dbSaved, clock>>
  /\ toast' = NoToast
  /\ CanIssue(1)
  /\ nextReq' = nextReq + 1
  /\ LET existingSave == find(savedJobs, jobId)
         req == IF existingSave # 0
                THEN Request(nextReq, "savedJobs.delete", user, jobId,
                             savedJobs[existingSave].id)
                ELSE Request(nextReq, "savedJobs.create", user, jobId, nextReq)
     IN /\ net' = net \cup {req}
        /\ last' = [req EXCEPT !.rid = 0]
        /\ outcome' = IF existingSave # 0 THEN "UnsaveIssued" ELSE "SaveIssued"

\* the continuation with a catch that leaves a mark for the job in the list
handleSaveJobSettledKeepsMark(r) ==
  /\ r \in net /\ r.op \in {"savedJobs.create", "savedJobs.delete"}
  /\ r.status # "pending"
  /\ net' = net \ {r}
  /\ last' = [r EXCEPT !.rid = 0]
  /\ IF r.status = "ok"
     THEN IF r.op = "savedJobs.delete"
          THEN /\ savedJobs' = Filter(savedJobs,
                                 {x \in Range(savedJobs) : x.id # r.id})
               /\ toast' = Toast("Job unsaved", "Job removed from saved jobs", "")
               /\ outcome' = "Unsaved"
          ELSE /\ savedJobs' = Append(savedJobs, formatSavedJob(r.rows[1]))
               /\ toast' = Toast("Job saved", "Job added to saved jobs", "")
               /\ outcome' = "Saved"
     ELSE /\ savedJobs' =
               IF r.op = "savedJobs.create"
               THEN Append(savedJobs,
                      [id |-> r.id, jobId |-> r.jobId, userId |-> r.userId,
                       createdAt |-> 0])
               ELSE savedJobs
          /\ toast' = Toast("Error", "Failed to save job", "destructive")
          /\ outcome' = IF r.op = "savedJobs.delete" THEN "UnsaveFailed"
                                                     ELSE "SaveFailed"
  /\ UNCHANGED <<user, loading, jobs, dbJobs, dbSaved, nextReq, clock>>

\* App.tsx 136-154, up to the await: the guard, the lookup in the rendered
\* savedJobs, and the store call it chooses.  The id of a new mark,
\* save_<Date.now()>_<random>, is fresh: the request number.
handleSaveJob(jobId) ==
  /\ \E i \in 1..Len(jobs) : jobs[i].id = jobId
  /\ UNCHANGED <<user, loading, jobs, savedJobs, dbJobs, dbSaved, clock>>
  /\ toast' = NoToast
  /\ IF user = Null
     THEN /\ outcome' = "NotAuthenticated"
          /\ last' = [NoRequest EXCEPT !.jobId = jobId]
          /\ UNCHANGED <<net, nextReq>>
     ELSE /\ CanIssue(1)
          /\ nextReq' = nextReq + 1
          /\ LET existingSave == find(savedJobs, jobId)
                 req == IF existingSave # 0
                        THEN Request(nextReq, "savedJobs.delete", user, jobId,
                                     savedJobs[existingSave].id)
                        ELSE Request(nextReq, "savedJobs.create", user, jobId,
                                     nextReq)
             IN /\ net' = net \cup {req}
                /\ last' = [req EXCEPT !.rid = 0]
                /\ outcome' = IF existingSave # 0 THEN "UnsaveIssued"
                                                  ELSE "SaveIssued"

\* App.tsx 143-176, from the await on: the state update and toast of the
\* branch taken, or the catch
handleSaveJobSettled(r) ==
  /\ r \in net /\ r.op \in {"savedJobs.create", "savedJobs.delete"}
  /\ r.status # "pending"
  /\ net' = net \ {r}
  /\ last' = [r EXCEPT !.rid = 0]
  /\ IF r.status = "ok"
     THEN IF r.op = "savedJobs.delete"
          THEN /\ savedJobs' = Filter(savedJobs,
                                 {x \in Range(savedJobs) : x.id # r.id})
               /\ toast' = Toast("Job unsaved", "Job removed from saved jobs", "")
               /\ outcome' = "Unsaved"
          ELSE /\ savedJobs' = Append(savedJobs, formatSavedJob(r.rows[1]))
               /\ toast' = Toast("Job saved", "Job added to saved jobs", "")
               /\ outcome' = "Saved"
     ELSE /\ savedJobs' = savedJobs
          /\ toast' = Toast("Error", "Failed to save job", "destructive")
          /\ outcome' = IF r.op = "savedJobs.delete" THEN "UnsaveFailed"
                                                     ELSE "SaveFailed"
  /\ UNCHANGED <<user, loading, jobs, dbJobs, dbSaved, nextReq, clock>>

(* --------------------------- SavedJobsModal --------------------------- *)
\* jobs.find(j => j.id === jobId): index of the first match, 0 if none
findJob(js, jobId) ==
  IF \E k \in 1..Len(js) : js[k].id = jobId
  THEN CHOOSE k \in 1..Len(js) :
         /\ js[k].id = jobId
         /\ \A n \in 1..(k - 1) : js[n].id # jobId
  ELSE 0

\* savedJobs.map(savedJob => job ? { ...savedJob, job } : null); null is
\* the entry that is not found
withData(saves, js) ==
  [i \in 1..Len(saves) |->
     LET k == findJob(js, saves[i].jobId)
     IN IF k # 0 THEN [found |-> TRUE, save |-> saves[i], job |-> js[k]]
                 ELSE [found |-> FALSE]]

\* the list without its .filter(Boolean)
savedJobsWithNulls(saves, js) == withData(saves, js)

\* part_000 26-31: savedJobsWithData
savedJobsWithData(saves, js) ==
  SelectSeq(withData(saves, js), LAMBDA entry : entry.found)

\* App.tsx 213: savedJobsCount={savedJobs.length}
savedJobsCount == Len(savedJobs)

(* ---------------------------- PostJobModal --------------------------- *)
\* String.prototype.trim
RECURSIVE trimStart(_)
trimStart(str) ==
  IF str # << >> /\ Head(str) = " " THEN trimStart(Tail(str)) ELSE str
trim(str) == Reverse(trimStart(Reverse(trimStart(str))))

\* PostJobModal.tsx 45-50
addTag(tagInput) ==
  /\ trim(tagInput) # << >>
  /\ trim(tagInput) \notin Range(tags)
  /\ Len(tags) < MaxTags
  /\ tags' = Append(tags, trim(tagInput))
  /\ UNCHANGED <<appVars, posted>>

\* PostJobModal.tsx 52-54
removeTag(tagToRemove) ==
  /\ tagToRemove \in Range(tags)
  /\ tags' = Filter(tags, Range(tags) \ {tagToRemove})
  /\ UNCHANGED <<appVars, posted>>

\* a form with every required field filled, and the same without a title
FilledForm ==
  [title |-> <<"D", "e", "v">>, company |-> <<"A", "c", "m", "e">>,
   location |-> <<"R", "e", "m", "o", "t", "e">>, description |-> <<"C", "o", "d", "e">>,
   salaryMin |-> <<"5", "0", "0", "0", "0">>, salaryMax |-> << >>,
   employmentType |-> <<"F", "u", "l", "l", "-", "t", "i", "m", "e">>,
   experienceLevel |-> <<"M", "i", "d", " ", "L", "e", "v", "e", "l">>,
   applicationType |-> "email", applicationEmail |-> "hr@x.io"]
Forms == {FilledForm, [FilledForm EXCEPT !.title = << >>]}

\* id: `job_${Date.now()}_${random}`, one per create request
NewJobId(rid) ==
  <<"job_1", "job_2", "job_3", "job_4", "job_5", "job_6", "job_7", "job_8">>[rid]

\* PostJobModal.tsx 120-138: the argument of blink.db.jobs.create, under the
\* column names the store keeps it by
NewJobRow(id, form, uid) ==
  JobRow(id, form.title, form.company, form.location, form.description,
         IF form.salaryMin # << >> THEN parseInt(form.salaryMin).n ELSE NoSalary,
         IF form.salaryMax # << >> THEN parseInt(form.salaryMax).n ELSE NoSalary,
         form.employmentType, form.experienceLevel,
         JSONstringify(tags), uid, 0)

\* PostJobModal.tsx 84-138, up to the await of the create; the submit
\* button is disabled while an earlier submit is under way
handleSubmit(form) ==
  /\ user # Null
  /\ Pending("jobs.create") = {} /\ Settled("jobs.create") = {}
  /\ last' = NoRequest
  /\ UNCHANGED <<user, loading, jobs, savedJobs, dbJobs, dbSaved, clock, tags>>
  /\ IF \/ form.title = << >> \/ form.company = << >> \/ form.location = << >>
        \/ form.description = << >> \/ form.employmentType = << >>
        \/ form.experienceLevel = << >>
     THEN /\ toast' = Toast("Error", "Please fill in all required fields",
                            "destructive")
          /\ outcome' = "PostRejected"
          /\ UNCHANGED <<net, nextReq, posted>>
     ELSE /\ CanIssue(2)
          /\ LET id == NewJobId(nextReq)
                 req == Request(nextReq, "jobs.create", user, id, 0)
             IN /\ net' = net \cup
                     {[req EXCEPT !.jobRows = <<NewJobRow(id, form, user)>>]}
                /\ posted' = posted \cup {[id |-> id, tags |-> tags]}
          /\ nextReq' = nextReq + 1
          /\ toast' = NoToast
          /\ outcome' = "PostIssued"

\* blink.db.jobs.create: the row is kept as given, with the time of writing
StoreServeJobsCreate(r) ==
  /\ r \in net /\ r.status = "pending" /\ r.op = "jobs.create"
  /\ clock' = clock + 1
  /\ LET row == [r.jobRows[1] EXCEPT !.created_at = clock + 1,
                                     !.updated_at = clock + 1]
     IN /\ dbJobs' = Append(dbJobs, row)
        /\ Settle(r, "ok", << >>, <<row>>)
  /\ UNCHANGED <<user, loading, jobs, savedJobs, dbSaved, nextReq, toast,
                 outcome, last, modalVars>>

\* PostJobModal.tsx 140-151 with App.tsx 122-129: resetForm and
\* handleJobPosted, which calls loadJobs, or the catch
handleSubmitSettled(r) ==
  /\ r \in net /\ r.op = "jobs.create" /\ r.status # "pending"
  /\ last' = [r EXCEPT !.rid = 0]
  /\ IF r.status = "ok"
     THEN /\ net' = (net \ {r}) \cup {Request(nextReq, "jobs.list", Null, "", 0)}
          /\ nextReq' = nextReq + 1
          /\ tags' = << >>
          /\ toast' = Toast("Success", "Job posted successfully!", "")
          /\ outcome' = "JobPosted"
     ELSE /\ net' = net \ {r}
          /\ toast' = Toast("Error", "Failed to post job. Please try again.",
                            "destructive")
          /\ outcome' = "PostFailed"
          /\ UNCHANGED <<nextReq, tags>>
  /\ UNCHANGED <<user, loading, jobs, savedJobs, dbJobs, dbSaved, clock, posted>>

(* --------------------------- filter changes --------------------------- *)
\* the handlers of JobBoard's inputs; each is followed by a render
FilterStep(what) ==
  /\ outcome' = what
  /\ toast' = NoToast
  /\ last' = NoRequest
  /\ UNCHANGED <<user, loading, jobs, savedJobs, dbJobs, dbSaved, net,
                 nextReq, clock>>
  /\ UNCHANGED modalVars
  /\ JobBoardRender

\* JobBoard.tsx 105: onChange={(e) => setSearchQuery(e.target.value)}
setSearchQuery(value) ==
  /\ searchQuery' = value
  /\ UNCHANGED <<locationFilter, employmentTypeFilter,
                 experienceLevelFilter, salaryMinFilter>>
  /\ FilterStep("FilterChanged")

\* JobBoard.tsx 112-121: "" or one of the listed locations
setLocationFilter(value) ==
  /\ value \in {<< >>} \cup Range(locations)
  /\ locationFilter' = value
  /\ UNCHANGED <<searchQuery, employmentTypeFilter, experienceLevelFilter,
                 salaryMinFilter>>
  /\ FilterStep("FilterChanged")

\* JobBoard.tsx 125-134
setEmploymentTypeFilter(value) ==
  /\ value \in {<< >>} \cup Range(employmentTypes)
  /\ employmentTypeFilter' = value
  /\ UNCHANGED <<searchQuery, locationFilter, experienceLevelFilter,
                 salaryMinFilter>>
  /\ FilterStep("FilterChanged")

\* JobBoard.tsx 138-147
setExperienceLevelFilter(value) ==
  /\ value \in {<< >>} \cup Range(experienceLevels)
  /\ experienceLevelFilter' = value
  /\ UNCHANGED <<searchQuery, locationFilter, employmentTypeFilter,
                 salaryMinFilter>>
  /\ FilterStep("FilterChanged")

\* JobBoard.tsx 161-173: the values of the Minimum Salary select
SalaryOptions ==
  {<< >>, <<"3", "0", "0", "0", "0">>, <<"5", "0", "0", "0", "0">>, <<"7", "0", "0", "0", "0">>, <<"1", "0", "0", "0", "0", "0">>, <<"1", "5", "0", "0", "0", "0">>, <<"2", "0", "0", "0", "0", "0">>}

setSalaryMinFilter(value) ==
  /\ value \in SalaryOptions
  /\ salaryMinFilter' = value
  /\ UNCHANGED <<searchQuery, locationFilter, employmentTypeFilter,
                 experienceLevelFilter>>
  /\ FilterStep("FilterChanged")

\* some predicate is active
AnyFilter ==
  <<searchQuery, locationFilter, employmentTypeFilter, experienceLevelFilter,
    salaryMinFilter>> # <<<< >>, << >>, << >>, << >>, << >>>>

\* clearFilters without its last line, setSalaryMinFilter('')
clearFiltersKeepsSalary ==
  /\ searchQuery' = << >>
  /\ locationFilter' = << >>
  /\ employmentTypeFilter' = << >>
  /\ experienceLevelFilter' = << >>
  /\ salaryMinFilter' = salaryMinFilter
  /\ FilterStep(IF AnyFilter THEN "FiltersCleared" ELSE "NothingToClear")

\* JobBoard.tsx 80-86
clearFilters ==
  /\ searchQuery' = << >>
  /\ locationFilter' = << >>
  /\ employmentTypeFilter' = << >>
  /\ experienceLevelFilter' = << >>
  /\ salaryMinFilter' = << >>
  /\ FilterStep(IF AnyFilter THEN "FiltersCleared" ELSE "NothingToClear")

(* ---------------------------- specification --------------------------- *)
JobIds == {InitialJobs[i].id : i \in 1..Len(InitialJobs)}

Next ==
  \/ (\E u \in Users \cup {Null} : AuthStateChanged(u, FALSE)) /\ BoardIdle /\ ModalIdle
  \/ (\E r \in net : StoreServe(r)) /\ BoardIdle /\ ModalIdle
  \/ (\E r \in net : StoreFail(r)) /\ BoardIdle /\ ModalIdle
  \/ (\E r \in net : loadJobs(r)) /\ BoardIdle /\ ModalIdle
  \/ (\E r \in net : loadSavedJobs(r)) /\ BoardIdle /\ ModalIdle
  \/ (\E j \in JobIds : handleSaveJob(j)) /\ BoardIdle /\ ModalIdle
  \/ (\E r \in net : handleSaveJobSettled(r)) /\ BoardIdle /\ ModalIdle

Spec == Init /\ [][Next]_vars

(* ----------------------- the filter engine at work -------------------- *)
\* The signed-in session with two record loads settled and waiting for
\* their continuations: the rows are two successive snapshots of the
\* store's job table, which other sessions write too.
PoolRows == {Row1, Row2, Row3, Row4}

\* orderBy: { createdAt: 'desc' } over a set of rows
RECURSIVE JobsDesc(_)
JobsDesc(rows) ==
  IF rows = {} THEN << >>
  ELSE LET top == CHOOSE r \in rows :
                    \A q \in rows : q.created_at <= r.created_at
       IN <<top>> \o JobsDesc(rows \ {top})

Tables == {t \in SUBSET PoolRows : Cardinality(t) <= MaxJobs}
\* the table one write later: a row posted or a row removed
Later(t) == {t \cup {r} : r \in PoolRows \ t} \cup {t \ {r} : r \in t}

\* the text typed into the search box
Queries == {<< >>, <<"R", "E", "A", "C", "T">>, <<"t", "s">>}
\* the thresholds picked in the salary select
SalaryInputs == {<< >>, <<"5", "0", "0", "0", "0">>, <<"7", "0", "0", "0", "0">>}

ListResponse(rid, op, uid, rows, jobRows) ==
  [NoRequest EXCEPT !.rid = rid, !.op = op, !.userId = uid,
                    !.status = "ok", !.rows = rows, !.jobRows = jobRows]

InitFilter ==
  /\ user = "u1"
  /\ loading = FALSE
  /\ jobs = << >>
  /\ savedJobs = [i \in 1..Len(ListSaved(InitialSaved, "u1")) |->
                    formatSavedJob(ListSaved(InitialSaved, "u1")[i])]
  /\ dbSaved = InitialSaved
  /\ \E t \in Tables : \E t2 \in Later(t) :
       /\ dbJobs = Reverse(JobsDesc(t2))
       /\ net = { ListResponse(1, "jobs.list", Null, << >>, JobsDesc(t)),
                  ListResponse(3, "jobs.list", Null, << >>, JobsDesc(t2)) }
  /\ nextReq = 5
  /\ clock = 2
  /\ toast = NoToast
  /\ outcome = "SavedLoaded"
  /\ last = ListResponse(0, "savedJobs.list", "u1",
                         ListSaved(InitialSaved, "u1"), << >>)
  /\ searchQuery = << >>
  /\ locationFilter = << >>
  /\ employmentTypeFilter = << >>
  /\ experienceLevelFilter = << >>
  /\ salaryMinFilter = << >>
  /\ locations = << >>
  /\ employmentTypes = << >>
  /\ experienceLevels = << >>
  /\ filteredJobs = << >>
  /\ tags = << >>
  /\ posted = {}

NextFilter ==
  \/ (\E r \in net : loadJobs(r)) /\ BoardIdle /\ ModalIdle
  \/ \E value \in Queries : setSearchQuery(value)
  \/ \E value \in {<< >>} \cup Range(locations) : setLocationFilter(value)
  \/ \E value \in {<< >>} \cup Range(employmentTypes) :
       setEmploymentTypeFilter(value)
  \/ \E value \in {<< >>} \cup Range(experienceLevels) :
       setExperienceLevelFilter(value)
  \/ \E value \in SalaryInputs : setSalaryMinFilter(value)
  \/ clearFilters

SpecFilter == InitFilter /\ [][NextFilter]_vars

(* ------------------ one user, a store that never fails --------------- *)
\* The session of one user, u1, in which every store call succeeds.
NextSteady ==
  \/ AuthStateChanged("u1", FALSE) /\ BoardIdle /\ ModalIdle
  \/ (\E r \in net : StoreServe(r)) /\ BoardIdle /\ ModalIdle
  \/ (\E r \in net : loadJobs(r)) /\ BoardIdle /\ ModalIdle
  \/ (\E r \in net : loadSavedJobs(r)) /\ BoardIdle /\ ModalIdle
  \/ (\E j \in JobIds : handleSaveJob(j)) /\ BoardIdle /\ ModalIdle
  \/ (\E r \in net : handleSaveJobSettled(r)) /\ BoardIdle /\ ModalIdle

SpecSteady == Init /\ [][NextSteady]_vars

(* --------------------------- posting a job ---------------------------- *)
\* what is typed into the tag input: plain, padded, with a quote, with a
\* backslash at the end
TagInputs == {<<"G", "o">>, <<" ", "T", "S", " ">>, <<"a", "\"", "b">>, <<"c", "\\">>}

Loaded(rows) == [i \in 1..Len(rows) |-> formatJob(rows[i])]

\* the signed-in session after its two loads, with two requests left: the
\* create of one post and the reload that follows it
InitPost ==
  /\ user = "u1"
  /\ loading = FALSE
  /\ jobs = Loaded(ListJobs(InitialJobs))
  /\ savedJobs = [i \in 1..Len(ListSaved(InitialSaved, "u1")) |->
                    formatSavedJob(ListSaved(InitialSaved, "u1")[i])]
  /\ dbJobs = InitialJobs
  /\ dbSaved = InitialSaved
  /\ net = {}
  /\ nextReq = MaxRequests - 1
  /\ clock = 2
  /\ toast = NoToast
  /\ outcome = "SavedLoaded"
  /\ last = ListResponse(0, "savedJobs.list", "u1",
                         ListSaved(InitialSaved, "u1"), << >>)
  /\ searchQuery = << >>
  /\ locationFilter = << >>
  /\ employmentTypeFilter = << >>
  /\ experienceLevelFilter = << >>
  /\ salaryMinFilter = << >>
  /\ locations = computeLocations(jobs)
  /\ employmentTypes = computeEmploymentTypes(jobs)
  /\ experienceLevels = computeExperienceLevels(jobs)
  /\ filteredJobs = jobs
  /\ tags = << >>
  /\ posted = {}

NextPost ==
  \/ (\E tagInput \in TagInputs : addTag(tagInput)) /\ BoardIdle
  \/ (\E tagToRemove \in Range(tags) : removeTag(tagToRemove)) /\ BoardIdle
  \/ (\E form \in Forms : handleSubmit(form)) /\ BoardIdle
  \/ (\E r \in net : StoreServeJobsCreate(r)) /\ BoardIdle
  \/ (\E r \in net : StoreServe(r)) /\ BoardIdle /\ ModalIdle
  \/ (\E r \in net : StoreFail(r)) /\ BoardIdle /\ ModalIdle
  \/ (\E r \in net : handleSubmitSettled(r)) /\ BoardIdle
  \/ (\E r \in net : loadJobs(r)) /\ BoardIdle /\ ModalIdle

SpecPost == InitPost /\ [][NextPost]_vars

(* ------------------------------- claims ------------------------------- *)
Create == "savedJobs.create"
Delete == "savedJobs.delete"
ErrorOutcomes == {"JobsLoadFailed", "SavedLoadFailed", "SaveFailed",
                  "UnsaveFailed", "NotAuthenticated"}
LoadFailures == {"JobsLoadFailed", "SavedLoadFailed"}
\* the request whose continuation this step runs
Continues(r) == r \in net /\ r.status # "pending" /\ r \notin net'

\* C1: right after toggleSave(r) on an Unsaved record has been issued, and
\* before the store's create has resolved, the local saved set already holds
\* a mark for r (isSaved(r) is true).
C1_SavedImmediately ==
  outcome = "SaveIssued" => isJobSaved(last.jobId)

\* C2: in every reachable state the local saved set holds at most one mark
\* per (userId, recordId) pair.
C2_OneMarkPerPair ==
  \A i, k \in 1..Len(savedJobs) :
    (savedJobs[i].userId = savedJobs[k].userId
       /\ savedJobs[i].jobId = savedJobs[k].jobId) => i = k

\* C3: a second toggle of r issued before the first's round trip completes
\* observes r as Saved, so no two store.create calls for the same user and
\* record are ever in flight together.
C3_NoConcurrentCreates ==
  \A r1, r2 \in Pending(Create) :
    (r1.userId = r2.userId /\ r1.jobId = r2.jobId) => r1 = r2

\* C4 (as stated): once a failed create of a mark for r has been handled, the
\* local saved set holds no mark for r.
C4_NoMarkAfterFailedSave ==
  outcome = "SaveFailed" => ~isJobSaved(last.jobId)

\* C4 (amended): handling the failure of a create leaves the local saved set
\* exactly as it was just before: the failed toggle adds no mark for r and
\* changes no other mark.
C4_FailedSaveChangesNothing ==
  [][\A r \in net :
       (Continues(r) /\ r.op = Create /\ r.status = "error")
         => savedJobs' = savedJobs]_vars

C4_Witness ==
  /\ outcome = "SaveFailed"
  /\ ~isJobSaved(last.jobId)
  /\ savedJobs # << >>

\* C5: once a failed delete of r's mark has been handled, the original mark
\* is in the local saved set and isSaved(r) is true.
C5_MarkPresentAfterFailedUnsave ==
  outcome = "UnsaveFailed" =>
    /\ \E i \in 1..Len(savedJobs) : savedJobs[i].id = last.id
    /\ isJobSaved(last.jobId)

\* C6: toggleSave with no authenticated user leaves the local saved set
\* unchanged and issues neither a store.create nor a store.delete.
C6_NoUserNoMutation ==
  [][/\ user = Null =>
          \A r \in net' : r.op \in {Create, Delete} => r.rid < nextReq
     /\ (outcome' = "NotAuthenticated" /\ <<outcome, last>> # <<outcome', last'>>)
          => UNCHANGED <<savedJobs, net, dbSaved, dbJobs, jobs>>]_vars

C6_Witness ==
  /\ outcome = "NotAuthenticated"
  /\ user = Null
  /\ savedJobs # << >>
  /\ last.jobId \in {jobs[i].id : i \in 1..Len(jobs)}

\* C7: every error outcome (failed record load, failed saved-set load, failed
\* save, failed unsave, toggle with no user) surfaces a notification.
C7_EveryErrorNotified ==
  outcome \in ErrorOutcomes => toast.variant = "destructive"

\* C8: every mark in the local saved set belongs to the current user, and
\* toggleSave never issues a store.delete for another user's mark.
C8_OnlyCurrentUsersMarks ==
  /\ \A i \in 1..Len(savedJobs) : savedJobs[i].userId = user
  /\ outcome = "UnsaveIssued" =>
       \A i \in 1..Len(savedJobs) :
         savedJobs[i].id = last.id => savedJobs[i].userId = last.userId

\* C9: when a saved-set load resolves successfully the local saved set is
\* exactly the sequence of marks the store returned.
C9_LoadReplaces ==
  outcome = "SavedLoaded" =>
    /\ Len(savedJobs) = Len(last.rows)
    /\ \A i \in 1..Len(savedJobs) :
         /\ savedJobs[i].id = last.rows[i].id
         /\ savedJobs[i].jobId = last.rows[i].job_id
         /\ savedJobs[i].userId = last.rows[i].user_id
         /\ savedJobs[i].createdAt = last.rows[i].created_at

C9_Witness ==
  /\ outcome = "SavedLoaded"
  /\ \E m \in Range(last.issuedSaved) : m \notin Range(savedJobs)

\* C10 (as stated): when a record fetch or a saved-set fetch fails, the record
\* set and the saved set are what they were before the fetch was issued.
C10_AsBeforeIssue ==
  outcome \in LoadFailures =>
    /\ jobs = last.issuedJobs
    /\ savedJobs = last.issuedSaved

\* C10 (amended): handling a failed record fetch or saved-set fetch changes
\* neither the record set nor the saved set: both are what they were just
\* before the failure was handled.
C10_FailedLoadChangesNothing ==
  [][\A r \in net :
       (Continues(r) /\ r.op \in {"jobs.list", "savedJobs.list"}
          /\ outcome' \in LoadFailures)
         => (jobs' = jobs /\ savedJobs' = savedJobs)]_vars

C10_Witness ==
  /\ outcome \in LoadFailures
  /\ jobs # << >>
  /\ savedJobs # << >>

(* --------------------------- the filter engine ------------------------ *)
Visible(job) == \E k \in 1..Len(filteredJobs) : filteredJobs[k] = job

\* C11: a record is in the visible list iff it satisfies all five predicates
\* at once: the text predicate, exact equality with each of the location,
\* employment type and experience level predicates that is non-empty, and
\* the salary predicate.
C11_VisibleIffAllFive ==
  \A i \in 1..Len(jobs) :
    Visible(jobs[i]) <=>
      /\ matchesSearch(jobs[i], searchQuery)
      /\ (locationFilter # << >> => jobs[i].location = locationFilter)
      /\ (employmentTypeFilter # << >> =>
            jobs[i].employmentType = employmentTypeFilter)
      /\ (experienceLevelFilter # << >> =>
            jobs[i].experienceLevel = experienceLevelFilter)
      /\ matchesSalary(jobs[i], salaryMinFilter)

\* two records agree on employment type and differ in experience level, the
\* level predicate is active with another one, and it alone separates them
C11_Witness ==
  /\ experienceLevelFilter # << >>
  /\ employmentTypeFilter # << >>
  /\ \E i, k \in 1..Len(jobs) :
       /\ Visible(jobs[i]) /\ ~Visible(jobs[k])
       /\ jobs[k].employmentType = employmentTypeFilter
       /\ jobs[k].experienceLevel # experienceLevelFilter

\* the four predicates other than the salary one
PassesOthers(job) ==
  /\ matchesSearch(job, searchQuery)
  /\ matchesExact(job.location, locationFilter)
  /\ matchesExact(job.employmentType, employmentTypeFilter)
  /\ matchesExact(job.experienceLevel, experienceLevelFilter)

\* C12: with a non-empty minimum-salary predicate a record passes only if
\* its salaryMin is present and at least the threshold, so a record with
\* only salaryMax set, or with no salary, is excluded; with an empty salary
\* predicate every record passes it.
C12_SalaryPredicate ==
  /\ salaryMinFilter # << >> =>
       \A k \in 1..Len(filteredJobs) :
         /\ filteredJobs[k].salaryMin # NoSalary
         /\ filteredJobs[k].salaryMin >= parseInt(salaryMinFilter).n
  /\ salaryMinFilter = << >> =>
       \A i \in 1..Len(jobs) : PassesOthers(jobs[i]) => Visible(jobs[i])

\* threshold "50000": the record with salaryMin undefined and salaryMax 60000
\* is hidden by the salary predicate alone, the one with salaryMin 50000 shows
C12_Witness ==
  /\ salaryMinFilter = <<"5", "0", "0", "0", "0">>
  /\ \E i, k \in 1..Len(jobs) :
       /\ jobs[i].salaryMin = NoSalary /\ jobs[i].salaryMax = 60000
       /\ PassesOthers(jobs[i]) /\ ~Visible(jobs[i])
       /\ jobs[k].salaryMin = 50000 /\ Visible(jobs[k])

\* a and b are the same character up to letter case
SameLetter(a, b) ==
  a = b \/ \E n \in 1..26 : {a, b} = {UpperLetters[n], LowerLetters[n]}

\* q occurs in text, letter case ignored
OccursIn(q, text) ==
  \E at \in 0..(Len(text) - Len(q)) :
    \A i \in 1..Len(q) : SameLetter(text[at + i], q[i])

\* C13: with a non-empty text query q a record passes the text predicate iff
\* q, compared case-insensitively, is a substring of its title, its company,
\* its description or at least one of its tags: of the records passing the
\* other four predicates exactly those are visible.
C13_TextPredicate ==
  searchQuery # << >> =>
    \A i \in 1..Len(jobs) :
      Visible(jobs[i]) <=>
        /\ \/ OccursIn(searchQuery, jobs[i].title)
           \/ OccursIn(searchQuery, jobs[i].company)
           \/ OccursIn(searchQuery, jobs[i].description)
           \/ \E t \in 1..Len(jobs[i].tags) :
                OccursIn(searchQuery, jobs[i].tags[t])
        /\ matchesExact(jobs[i].location, locationFilter)
        /\ matchesExact(jobs[i].employmentType, employmentTypeFilter)
        /\ matchesExact(jobs[i].experienceLevel, experienceLevelFilter)
        /\ matchesSalary(jobs[i], salaryMinFilter)

\* query "REACT" shows a record with tag "React" and hides another record
C13_Witness ==
  /\ searchQuery = <<"R", "E", "A", "C", "T">>
  /\ \E k \in 1..Len(filteredJobs) :
       \E t \in 1..Len(filteredJobs[k].tags) :
         filteredJobs[k].tags[t] = <<"R", "e", "a", "c", "t">>
  /\ Len(filteredJobs) < Len(jobs)

\* a is b with some elements left out
RECURSIVE IsSubsequence(_, _)
IsSubsequence(a, b) ==
  IF a = << >> THEN TRUE
  ELSE IF b = << >> THEN FALSE
  ELSE IF Head(a) = Head(b) THEN IsSubsequence(Tail(a), Tail(b))
  ELSE IsSubsequence(a, Tail(b))

\* the number of predicates that are active
Active(query, location, employmentType, experienceLevel, salaryMin) ==
  Cardinality({n \in 1..5 :
    <<query, location, employmentType, experienceLevel, salaryMin>>[n] # << >>})

\* one predicate goes from empty to a value, the other four stay
OneMoreActive ==
  /\ Active(searchQuery', locationFilter', employmentTypeFilter',
            experienceLevelFilter', salaryMinFilter')
       = 1 + Active(searchQuery, locationFilter, employmentTypeFilter,
                    experienceLevelFilter, salaryMinFilter)
  /\ \A n \in 1..5 :
       LET old == <<searchQuery, locationFilter, employmentTypeFilter,
                    experienceLevelFilter, salaryMinFilter>>[n]
           new == <<searchQuery', locationFilter', employmentTypeFilter',
                    experienceLevelFilter', salaryMinFilter'>>[n]
       IN old # << >> => new = old

\* C14: making one more predicate active, the others and the records
\* unchanged, never increases the number of visible records: the new visible
\* list is a sub-list of the old one.
C14_OneMorePredicateNarrows ==
  [][(OneMoreActive /\ jobs' = jobs) =>
       /\ IsSubsequence(filteredJobs', filteredJobs)
       /\ Len(filteredJobs') <= Len(filteredJobs)]_vars

\* a second predicate has just been made active and hides a record the
\* first one let through
C14_Witness ==
  /\ outcome = "FilterChanged"
  /\ salaryMinFilter # << >>
  /\ locationFilter # << >>
  /\ \E i \in 1..Len(jobs) :
       /\ jobs[i].location = locationFilter
       /\ ~Visible(jobs[i])
  /\ filteredJobs # << >>

\* C15: the visible list is a subsequence of the input record sequence:
\* every visible record is an input record, none appears more often than in
\* the input, and visible records keep the input's relative order.
C15_VisibleIsSubsequence == IsSubsequence(filteredJobs, jobs)

\* two of three loaded records are visible, the hidden one lies between them
C15_Witness ==
  /\ Len(jobs) = 3
  /\ Len(filteredJobs) = 2
  /\ filteredJobs[1] = jobs[1]
  /\ filteredJobs[2] = jobs[3]

\* C16: after clearFilters, following any sequence of changes to the five
\* predicates, all five are empty in the same step and the visible list
\* equals the full input record sequence.
C16_ClearedShowsAll ==
  outcome \in {"FiltersCleared", "NothingToClear"} =>
    /\ searchQuery = << >>
    /\ locationFilter = << >>
    /\ employmentTypeFilter = << >>
    /\ experienceLevelFilter = << >>
    /\ salaryMinFilter = << >>
    /\ filteredJobs = jobs

\* clearFilters has just reset predicates that were active, with records loaded
C16_Witness ==
  /\ outcome = "FiltersCleared"
  /\ Len(jobs) >= 2
  /\ filteredJobs = jobs

\* list is strictly ascending and holds exactly the values of the field
SortedExact(list, values) ==
  /\ \A i, k \in 1..Len(list) : i < k => StrLess(list[i], list[k])
  /\ Range(list) = values

\* C17: each derived choice list is, for the currently loaded record set,
\* in ascending lexicographic order, free of duplicates, and holds exactly
\* the values occurring in that field of some loaded record.
C17_ChoiceLists ==
  /\ SortedExact(locations, {jobs[i].location : i \in 1..Len(jobs)})
  /\ SortedExact(employmentTypes,
                 {jobs[i].employmentType : i \in 1..Len(jobs)})
  /\ SortedExact(experienceLevels,
                 {jobs[i].experienceLevel : i \in 1..Len(jobs)})

\* after the reload: three records, two of them with the same location, and
\* the two locations listed in order
C17_Witness ==
  /\ outcome = "JobsLoaded"
  /\ net = {}
  /\ Len(jobs) = 3
  /\ \E i, k \in 1..Len(jobs) : i # k /\ jobs[i].location = jobs[k].location
  /\ Len(locations) = 2
  /\ StrLess(locations[1], locations[2])

(* -------------------------------- loads ------------------------------- *)
\* C18: when the store returns a record whose tags field is missing or
\* cannot be parsed, the record is loaded with tags equal to the empty
\* sequence; the load does not fail and the other records of the same list
\* result are loaded normally.
C18_BadTagsLoadAsEmpty ==
  (outcome \in {"JobsLoaded", "JobsLoadFailed"} /\ last.status = "ok") =>
    /\ outcome = "JobsLoaded"
    /\ Len(jobs) = Len(last.jobRows)
    /\ \A i \in 1..Len(jobs) :
         /\ jobs[i].id = last.jobRows[i].id
         /\ jobs[i].tags =
              IF last.jobRows[i].tags # << >> /\ JSONvalid(last.jobRows[i].tags)
              THEN JSONparse(last.jobRows[i].tags)
              ELSE << >>

\* C19: every toggle whose store call succeeds flips isSaved of its record,
\* whatever the local saved set held when the toggle was issued, when
\* nothing happened in the client between the issue and the continuation
\* and no saved-set load and no other toggle of the record is under way.
HasMark(saves, jobId) == \E i \in 1..Len(saves) : saves[i].jobId = jobId

C19_SuccessfulToggleFlips ==
  [][\A r \in net :
       ( /\ Continues(r)
         /\ r.op \in {Create, Delete}
         /\ r.status = "ok"
         /\ outcome \in {"SaveIssued", "UnsaveIssued"}
         /\ last.op = r.op /\ last.id = r.id /\ last.jobId = r.jobId
         /\ \A q \in net \ {r} :
              /\ q.op # "savedJobs.list"
              /\ q.op \in {Create, Delete} => q.jobId # r.jobId )
       => HasMark(savedJobs', r.jobId) # HasMark(savedJobs, r.jobId)]_vars

\* C20: when the store's saved-set list result holds several marks for one
\* (userId, recordId) pair, the load keeps only the first-seen mark of each
\* pair: the local saved set after the load has one mark per pair.
C20_LoadKeepsOnePerPair ==
  outcome = "SavedLoaded" =>
    \A i, k \in 1..Len(savedJobs) :
      (savedJobs[i].userId = savedJobs[k].userId
         /\ savedJobs[i].jobId = savedJobs[k].jobId) => i = k

(* ------------------------- loads against toggles ---------------------- *)
\* the store rows written by a toggle that was issued after request r
SavedSince(r) ==
  {row \in Range(dbSaved) : row.id < nextReq /\ row.id > r.rid}

\* C21: a saved-set load that resolves after a toggle issued while the load
\* was in flight replaces the local saved set with the load's result: a mark
\* the toggle wrote after the store answered the load is not in the local
\* set afterwards, and a mark it removed is there again.
C21_LoadOverwritesToggle ==
  [][\A r \in net :
       (Continues(r) /\ r.op = "savedJobs.list" /\ r.status = "ok") =>
         /\ \A row \in SavedSince(r) :
              row \notin Range(r.rows) =>
                \A i \in 1..Len(savedJobs') : savedJobs'[i].id # row.id
         /\ \A i \in 1..Len(r.rows) :
              \E k \in 1..Len(savedJobs') : savedJobs'[k].id = r.rows[i].id]_vars

\* the load has just overwritten a successful save whose continuation had
\* run: the store holds the user's mark for a record that the local set
\* shows as unsaved
C21_Witness ==
  /\ outcome = "SavedLoaded"
  /\ last.userId = user
  /\ \E row \in Range(dbSaved) :
       /\ row.id < nextReq
       /\ row.user_id = user
       /\ \A q \in net : q.op = Create => q.id # row.id
       /\ ~HasMark(savedJobs, row.job_id)

(* ----------------------------- memoization ---------------------------- *)
\* C22: in every reachable state the displayed visible list equals the
\* filter applied to the current record set under the current predicates,
\* and each derived choice list equals the one computed from the current
\* record set: no memoized result of an earlier record set or predicate
\* value is displayed.
C22_NoStaleMemo ==
  /\ filteredJobs = computeFilteredJobs(jobs, searchQuery, locationFilter,
                                        employmentTypeFilter,
                                        experienceLevelFilter, salaryMinFilter)
  /\ locations = computeLocations(jobs)
  /\ employmentTypes = computeEmploymentTypes(jobs)
  /\ experienceLevels = computeExperienceLevels(jobs)

\* both loads have been applied, the second one under predicates that
\* were already active, and some but not all records are visible
C22_Witness ==
  /\ outcome = "JobsLoaded"
  /\ net = {}
  /\ AnyFilter
  /\ filteredJobs # << >>
  /\ Len(filteredJobs) < Len(jobs)

(* --------------------------- tags round trip -------------------------- *)
\* C23: a record posted with the ordered tag sequence T is written with its
\* tags serialized to one text, and reading that record back yields a tag
\* sequence equal to T, same elements in the same order, for every T
\* including the empty one; the read does not fail.
C23_TagsRoundTrip ==
  /\ \A p \in posted :
       /\ \A i \in 1..Len(dbJobs) :
            dbJobs[i].id = p.id => dbJobs[i].tags = JSONstringify(p.tags)
       /\ \A i \in 1..Len(jobs) : jobs[i].id = p.id => jobs[i].tags = p.tags
  /\ (last.op = "jobs.list" /\ last.status = "ok") =>
       /\ outcome = "JobsLoaded"
       /\ \A i \in 1..Len(last.jobRows) :
            \E k \in 1..Len(jobs) : jobs[k].id = last.jobRows[i].id

\* the posted record has been read back with its two tags, one of them
\* holding a quote or a backslash
C23_Witness ==
  \E p \in posted : \E i \in 1..Len(jobs) :
    /\ jobs[i].id = p.id
    /\ Len(jobs[i].tags) = 2
    /\ \E t \in 1..2 : \E c \in 1..Len(jobs[i].tags[t]) :
         jobs[i].tags[t][c] \in {Quote, Backslash}

(* ------------------------- local set and store ------------------------ *)
\* C24: for one signed-in user and a store whose calls all succeed,
\* whenever no saved-set load, create or delete is in flight, the local
\* saved set holds exactly the marks the store holds for that user.
C24_QuiescentLocalEqualsStore ==
  (user # Null /\ \A r \in net : r.op = "jobs.list") =>
    /\ {savedJobs[i].id : i \in 1..Len(savedJobs)}
         = {row.id : row \in {x \in Range(dbSaved) : x.user_id = user}}
    /\ Len(savedJobs)
         = Cardinality({x \in Range(dbSaved) : x.user_id = user})

(* --------------------------- saved-jobs list -------------------------- *)
\* the marks whose record is among the loaded records
MarkLoaded(mark) == \E k \in 1..Len(jobs) : jobs[k].id = mark.jobId

\* C25: the saved-jobs list shows one entry per local mark whose record is
\* loaded, in the marks' order, and omits every other mark, so its count is
\* at most the header badge count and the two differ exactly when some
\* mark's record is not among the loaded records.
C25_ListedMarksAreLoaded ==
  LET shown == savedJobsWithData(savedJobs, jobs)
  IN /\ Len(shown) = Len(SelectSeq(savedJobs, MarkLoaded))
     /\ Len(shown) <= savedJobsCount
     /\ Len(shown) < savedJobsCount <=>
          \E i \in 1..Len(savedJobs) : ~MarkLoaded(savedJobs[i])
     /\ \A i \in 1..Len(shown) :
          /\ shown[i].save = SelectSeq(savedJobs, MarkLoaded)[i]
          /\ shown[i].job.id = shown[i].save.jobId

\* marks are held while their records are not loaded: the list is shorter
\* than the badge count
C25_Witness ==
  /\ user # Null
  /\ savedJobsCount >= 1
  /\ Len(savedJobsWithData(savedJobs, jobs)) < savedJobsCount

====
